---------------------------- MODULE Spec2Model ----------------------------
(***************************************************************************)
(* A model of client/renderers/EGL/desktop.c, the desktop surface of the   *)
(* Looking Glass EGL renderer: the transfer path (DMABUF import with a     *)
(* permanent fall back to framebuffer upload), the post-process filter     *)
(* chain (two FSR passes and CAS), the scale algorithm selection done by   *)
(* the render call, and the night vision gain.                             *)
(*                                                                         *)
(* Each entry point of desktop.c is one action.  The texture, the option   *)
(* store and the GUI toolkit are collaborators that live outside of        *)
(* desktop.c: their results (an import that fails, the value a slider      *)
(* returns, ...) are inputs of the actions.  The variable `call' holds     *)
(* what the most recent call was given, what it asked of the collaborators *)
(* and what it returned.                                                   *)
(*                                                                         *)
(* Floats are fixed point numbers: 1.0f is SharpUnit.                      *)
(***************************************************************************)
EXTENDS Integers, Sequences, FiniteSets

VARIABLES
  pc,              \* "running", or "crashed" once a call did not return
  call,            \* the most recent call that returned
  texture,         \* desktop->texture: the id of a texture, or NULL
  texType,         \* the kind the texture at desktop->texture was built as
  texFilters,      \* the filter steps of the texture at desktop->texture
  texCount,        \* textures built so far (the id of the newest one)
  ffxFSR1Handle,   \* desktop->ffxFSR1Handle[0..1]
  ffxCASHandle,    \* desktop->ffxCASHandle
  width,           \* desktop->width
  height,          \* desktop->height
  upscale,         \* desktop->upscale
  scaleAlgo,       \* desktop->scaleAlgo
  nvMax,           \* desktop->nvMax
  nvGain,          \* desktop->nvGain
  useDMA,          \* desktop->useDMA
  format,          \* desktop->format
  ffxFSR1Enable,   \* desktop->ffxFSR1Enable
  ffxFSR1Uniform,  \* desktop->ffxFSR1Uniform.f[0]
  ffxCASEnable,    \* desktop->ffxCASEnable
  ffxCASUniform,   \* desktop->ffxCASUniform.f[0]
  dmaFailures,     \* how often a DMA import has failed on this surface
  nvStart,         \* the gain the store or the slider last put into nvGain
  nvToggles        \* toggleNV events since nvStart was put there

vars == << pc, call, texture, texType, texFilters, texCount, ffxFSR1Handle,
           ffxCASHandle, width, height, upscale, scaleAlgo, nvMax, nvGain,
           useDMA, format, ffxFSR1Enable, ffxFSR1Uniform, ffxCASEnable,
           ffxCASUniform, dmaFailures, nvStart, nvToggles >>

surfaceVars == << texture, texType, texFilters, texCount, ffxFSR1Handle,
                  ffxCASHandle, width, height, upscale, scaleAlgo, nvMax,
                  nvGain, useDMA, format, ffxFSR1Enable, ffxFSR1Uniform,
                  ffxCASEnable, ffxCASUniform, dmaFailures, nvStart,
                  nvToggles >>

---------------------------------------------------------------------------
(* Bounds of the model.                                                    *)

\* 1.0f in the fixed point representation of the sharpness values
SharpUnit == 2
\* frames are 1..MaxFrameDim pixels wide and high
MaxFrameDim == 1
\* the window is 1..MaxWindowDim pixels wide and high
MaxWindowDim == 2
\* egl:nvGainMax in the option store is at most this
MaxNvMax == 2
\* toggleNV events followed between two uses of the night vision slider
MaxToggles == 4

---------------------------------------------------------------------------
(* Program constants.                                                      *)

EGL_SCALE_AUTO    == 0
EGL_SCALE_NEAREST == 1
EGL_SCALE_LINEAR  == 2
EGL_SCALE_MAX     == 3

NULL == 0

EGL_TEXTYPE_DMABUF      == "EGL_TEXTYPE_DMABUF"
EGL_TEXTYPE_FRAMEBUFFER == "EGL_TEXTYPE_FRAMEBUFFER"

EGL_DESKTOP_NOSCALE   == "EGL_DESKTOP_NOSCALE"
EGL_DESKTOP_UPSCALE   == "EGL_DESKTOP_UPSCALE"
EGL_DESKTOP_DOWNSCALE == "EGL_DESKTOP_DOWNSCALE"
ScaleTypes == { EGL_DESKTOP_NOSCALE, EGL_DESKTOP_UPSCALE, EGL_DESKTOP_DOWNSCALE }

EGL_TEX_STATUS_OK       == "EGL_TEX_STATUS_OK"
EGL_TEX_STATUS_NOTREADY == "EGL_TEX_STATUS_NOTREADY"
EGL_TEX_STATUS_ERROR    == "EGL_TEX_STATUS_ERROR"
TexStatuses == { EGL_TEX_STATUS_OK, EGL_TEX_STATUS_NOTREADY, EGL_TEX_STATUS_ERROR }

\* the frame types egl_desktopSetup has a case for
SupportedFrameTypes ==
  { "FRAME_TYPE_BGRA", "FRAME_TYPE_RGBA", "FRAME_TYPE_RGBA10", "FRAME_TYPE_RGBA16F" }

\* the pixel format egl_desktopSetup hands to the texture for a frame type
PixFmt(type) ==
  CASE type = "FRAME_TYPE_BGRA"    -> "EGL_PF_BGRA"
    [] type = "FRAME_TYPE_RGBA"    -> "EGL_PF_RGBA"
    [] type = "FRAME_TYPE_RGBA10"  -> "EGL_PF_RGBA10"
    [] type = "FRAME_TYPE_RGBA16F" -> "EGL_PF_RGBA16F"

\* desktop->format as calloc leaves it
ZeroFormat == [ type |-> "FRAME_TYPE_INVALID", width |-> 0, height |-> 0 ]

\* the shaders of the three filter steps, in the order setupFilters adds them
FSR1_EASU == "ffxFSR1[0]"
FSR1_RCAS == "ffxFSR1[1]"
CAS       == "ffxCAS"

---------------------------------------------------------------------------
(* The texture, as desktop.c uses it.                                      *)

\* a handle names a filter step of one texture
Handle(tex, idx) == [ tex |-> tex, idx |-> idx ]

\* the step behind a handle is alive as long as its texture is
HandleLive(tex, h) == tex # NULL /\ h.tex = tex

egl_textureAddFilter(filters, shader, enabled) ==
  Append(filters, [ shader |-> shader, enabled |-> enabled, w |-> 0, h |-> 0 ])

egl_textureEnableFilter(tex, filters, h, enable) ==
  IF HandleLive(tex, h)
  THEN [ filters EXCEPT ![h.idx].enabled = enable ]
  ELSE filters

egl_textureSetFilterRes(tex, filters, h, x, y) ==
  IF HandleLive(tex, h)
  THEN [ filters EXCEPT ![h.idx].w = x, ![h.idx].h = y ]
  ELSE filters

\* setupFilters adding the steps of a new texture switched off
setupFiltersOff(tex) ==
  LET f0 == egl_textureAddFilter(<< >>, FSR1_EASU, FALSE)
      f1 == egl_textureAddFilter(f0,    FSR1_RCAS, FALSE)
      f2 == egl_textureAddFilter(f1,    CAS,       FALSE)
  IN  [ filters       |-> f2,
        ffxFSR1Handle |-> << Handle(tex, 1), Handle(tex, 2) >>,
        ffxCASHandle  |-> Handle(tex, 3) ]

\* the steps of a new texture `tex' after setupFilters, and their handles
setupFilters(tex) ==
  LET f0 == egl_textureAddFilter(<< >>, FSR1_EASU, ffxFSR1Enable)
      f1 == egl_textureAddFilter(f0,    FSR1_RCAS, ffxFSR1Enable)
      f2 == egl_textureAddFilter(f1,    CAS,       ffxCASEnable)
  IN  [ filters       |-> f2,
        ffxFSR1Handle |-> << Handle(tex, 1), Handle(tex, 2) >>,
        ffxCASHandle  |-> Handle(tex, 3) ]

\* a call that does not return: a NULL texture or a freed filter step was used
Crash ==
  /\ pc' = "crashed"
  /\ UNCHANGED << call, surfaceVars >>


---------------------------------------------------------------------------
(* The surface after egl_desktopInit(useDMA) has returned true.            *)

\* egl_desktopScaleValidate letting EGL_SCALE_MAX itself through
egl_desktopScaleValidateUpTo(v) == v >= 0 /\ v <= EGL_SCALE_MAX

\* the validation hook of the option egl:scale
egl_desktopScaleValidate(v) == v >= 0 /\ v < EGL_SCALE_MAX

\* the message the hook leaves in *error: none when it accepts
egl_desktopScaleValidateError(v) ==
  IF egl_desktopScaleValidate(v)
  THEN << >>
  ELSE << "Invalid scale algorithm number" >>

\* the configuration store loading v into egl:scale, which held prior: the
\* value it holds afterwards and the error it reports
option_load(prior, v) ==
  [ value |-> IF egl_desktopScaleValidate(v) THEN v ELSE prior,
    error |-> egl_desktopScaleValidateError(v) ]

\* the uniform of FSR for the value of eglFilter:ffxFSRSharpness
InitFSR1Sharpness(raw) == raw

\* the uniform of CAS for the value of eglFilter:ffxCASSharpness
InitCASSharpness(raw) == raw

\* egl_desktopInit, with the option store holding a value of each set;
\* scales are pairs: the value egl:scale held, and the value loaded over it
egl_desktopInit(dmaArgs, nvMaxs, nvGains, scales, fsr1s, fsr1Sharps, cass, casSharps) ==
  /\ pc = "running"
  /\ useDMA \in dmaArgs
  /\ texture = 1
  /\ texCount = 1
  /\ texType = IF useDMA THEN EGL_TEXTYPE_DMABUF ELSE EGL_TEXTYPE_FRAMEBUFFER
  /\ width = 0
  /\ height = 0
  /\ upscale = FALSE
  /\ format = ZeroFormat
  /\ nvMax \in nvMaxs
  /\ nvGain \in nvGains
  /\ \E scale \in scales, fsr1Sharpness \in fsr1Sharps, casSharpness \in casSharps :
       /\ scaleAlgo = option_load(scale[1], scale[2]).value
       /\ ffxFSR1Uniform = InitFSR1Sharpness(fsr1Sharpness)
       /\ ffxCASUniform = InitCASSharpness(casSharpness)
       /\ call = [ op            |-> "egl_desktopInit",
                   scalePrior    |-> scale[1],
                   scaleTried    |-> scale[2],
                   scaleError    |-> option_load(scale[1], scale[2]).error,
                   fsr1Sharpness |-> fsr1Sharpness,
                   casSharpness  |-> casSharpness,
                   ret           |-> TRUE ]
  /\ ffxFSR1Enable \in fsr1s
  /\ ffxCASEnable \in cass
  /\ texFilters = setupFilters(1).filters
  /\ ffxFSR1Handle = setupFilters(1).ffxFSR1Handle
  /\ ffxCASHandle = setupFilters(1).ffxCASHandle
  /\ dmaFailures = 0
  /\ nvStart = nvGain
  /\ nvToggles = 0

---------------------------------------------------------------------------
(* toggleNV, the handler of the night vision key.                          *)

\* toggleNVGain comparing after the increment: `++desktop->nvGain == nvMax'
toggleNVGainPre(gain, max) == IF gain + 1 = max THEN 0 ELSE gain + 1

\* nvGain after `if (desktop->nvGain++ == desktop->nvMax) desktop->nvGain = 0'
toggleNVGain(gain, max) == IF gain = max THEN 0 ELSE gain + 1

\* the alert toggleNV shows for the new gain
toggleNVAlert(gain) ==
  IF gain = 0 THEN << "NV Disabled" >>
  ELSE IF gain = 1 THEN << "NV Enabled" >>
  ELSE << "NV Gain + %d", gain - 1 >>

toggleNV ==
  /\ pc = "running"
  /\ nvToggles < MaxToggles
  /\ nvGain' = toggleNVGain(nvGain, nvMax)
  /\ nvToggles' = nvToggles + 1
  /\ call' = [ op               |-> "toggleNV",
               alert            |-> toggleNVAlert(nvGain'),
               invalidateWindow |-> TRUE ]
  /\ UNCHANGED << pc, texture, texType, texFilters, texCount, ffxFSR1Handle,
                  ffxCASHandle, width, height, upscale, scaleAlgo, nvMax,
                  useDMA, format, ffxFSR1Enable, ffxFSR1Uniform,
                  ffxCASEnable, ffxCASUniform, dmaFailures, nvStart >>

---------------------------------------------------------------------------
(* egl_desktopSetup                                                        *)

\* SetupOutcome without lines 413 and 414
SetupOutcomeKeepsSize(fmt, texOk) ==
  LET supported == fmt.type \in SupportedFrameTypes
  IN  [ format   |-> fmt,
        width    |-> width,
        height   |-> height,
        texSetup |-> IF supported
                     THEN << PixFmt(fmt.type), fmt.width, fmt.height >>
                     ELSE << >>,
        ret      |-> supported /\ texOk ]

\* what egl_desktopSetup(fmt) leaves in the surface and returns, the
\* texture's setup answering texOk
SetupOutcome(fmt, texOk) ==
  LET supported == fmt.type \in SupportedFrameTypes
  IN  [ format   |-> fmt,
        width    |-> IF supported THEN fmt.width  ELSE width,
        height   |-> IF supported THEN fmt.height ELSE height,
        texSetup |-> IF supported
                     THEN << PixFmt(fmt.type), fmt.width, fmt.height >>
                     ELSE << >>,
        ret      |-> supported /\ texOk ]

egl_desktopSetup(fmt, texOk) ==
  LET out == SetupOutcome(fmt, texOk)
  IN  /\ pc = "running"
      /\ \/ /\ out.texSetup # << >> => texture # NULL
            /\ format' = out.format
            /\ width'  = out.width
            /\ height' = out.height
            /\ call' = [ op       |-> "egl_desktopSetup",
                         fmt      |-> fmt,
                         texSetup |-> out.texSetup,
                         ret      |-> out.ret ]
            /\ UNCHANGED << pc, texture, texType, texFilters, texCount,
                            ffxFSR1Handle, ffxCASHandle, upscale, scaleAlgo,
                            nvMax, nvGain, useDMA, ffxFSR1Enable,
                            ffxFSR1Uniform, ffxCASEnable, ffxCASUniform,
                            dmaFailures, nvStart, nvToggles >>
         \/ /\ out.texSetup # << >>
            /\ texture = NULL
            /\ Crash

---------------------------------------------------------------------------
(* egl_desktopUpdate                                                       *)

\* the branch that imports the frame through DMA is taken
UpdateTakesDMA(dmaFd) == useDMA /\ dmaFd >= 0

\* UpdateDowngrade with the assignment of line 440 left out
UpdateDowngradeKept == useDMA

\* desktop->useDMA after a failed import
UpdateDowngrade == FALSE

\* desktop->texture after egl_textureFree and egl_textureInit: the id of
\* the new framebuffer texture, or NULL when it could not be built
UpdateReinit(initOk) == IF initOk THEN texCount + 1 ELSE NULL

\* UpdateAfterDowngrade answering true once the surface is set up again
UpdateAfterDowngradeNoFrame(setupRet, frameOk) == setupRet

\* what the call returns after the downgrade: false when the re-run of
\* egl_desktopSetup failed, else the answer of egl_textureUpdateFromFrame
UpdateAfterDowngrade(setupRet, frameOk) == setupRet /\ frameOk

\* dmaOk, initOk, setupOk and frameOk are the answers of the texture's
\* updateFromDMA, init, setup and updateFromFrame, were they called
egl_desktopUpdate(dmaFd, dmaOk, initOk, setupOk, frameOk) ==
  /\ pc = "running"
  /\ IF UpdateTakesDMA(dmaFd)
     THEN
       \/ /\ texture = NULL
          /\ Crash
       \/ /\ texture # NULL
          /\ dmaOk
          /\ call' = [ op |-> "egl_desktopUpdate", dmaFd |-> dmaFd,
                       dma |-> "ok", init |-> "none", setup |-> "none",
                       frame |-> "none", ret |-> TRUE ]
          /\ UNCHANGED << pc, surfaceVars >>
       \/ /\ texture # NULL
          /\ ~dmaOk
          /\ useDMA' = UpdateDowngrade
          /\ dmaFailures' = dmaFailures + 1
          /\ texture' = UpdateReinit(initOk)
          /\ IF texture' = NULL
             THEN
               /\ texFilters' = << >>
               /\ call' = [ op |-> "egl_desktopUpdate", dmaFd |-> dmaFd,
                            dma |-> "failed", init |-> "failed",
                            setup |-> "none", frame |-> "none",
                            ret |-> FALSE ]
               /\ UNCHANGED << texType, texCount, ffxFSR1Handle,
                               ffxCASHandle, format, width, height >>
             ELSE
               LET filters == setupFilters(texture')
                   setup   == SetupOutcome(format, setupOk)
               IN  /\ texCount' = texCount + 1
                   /\ texType' = EGL_TEXTYPE_FRAMEBUFFER
                   /\ texFilters' = filters.filters
                   /\ ffxFSR1Handle' = filters.ffxFSR1Handle
                   /\ ffxCASHandle' = filters.ffxCASHandle
                   /\ format' = setup.format
                   /\ width'  = setup.width
                   /\ height' = setup.height
                   /\ call' = [ op |-> "egl_desktopUpdate", dmaFd |-> dmaFd,
                                dma |-> "failed", init |-> "ok",
                                setup |-> IF setup.ret THEN "ok" ELSE "failed",
                                frame |-> IF ~setup.ret THEN "none"
                                          ELSE IF frameOk THEN "ok"
                                          ELSE "failed",
                                ret |-> UpdateAfterDowngrade(setup.ret,
                                                             frameOk) ]
          /\ UNCHANGED << pc, upscale, scaleAlgo, nvMax, nvGain,
                          ffxFSR1Enable, ffxFSR1Uniform, ffxCASEnable,
                          ffxCASUniform, nvStart, nvToggles >>
     ELSE
       \/ /\ texture = NULL
          /\ Crash
       \/ /\ texture # NULL
          /\ call' = [ op |-> "egl_desktopUpdate", dmaFd |-> dmaFd,
                       dma |-> "none", init |-> "none", setup |-> "none",
                       frame |-> IF frameOk THEN "ok" ELSE "failed",
                       ret |-> frameOk ]
          /\ UNCHANGED << pc, surfaceVars >>

---------------------------------------------------------------------------
(* egl_desktopResize                                                       *)

\* desktop->upscale after a resize of the window to w x h
ResizeUpscale(w, h) == w > width /\ h > height

\* ResizeFilters with the else branch leaving the FSR steps as they are
ResizeFiltersNoDisable(w, h) ==
  IF ResizeUpscale(w, h)
  THEN
    LET f0 == IF ffxFSR1Enable
              THEN egl_textureEnableFilter(texture, texFilters,
                                           ffxFSR1Handle[1], TRUE)
              ELSE texFilters
        f1 == IF ffxFSR1Enable
              THEN egl_textureEnableFilter(texture, f0, ffxFSR1Handle[2], TRUE)
              ELSE f0
        f2 == egl_textureSetFilterRes(texture, f1, ffxFSR1Handle[1], w, h)
        f3 == egl_textureSetFilterRes(texture, f2, ffxFSR1Handle[2], w, h)
    IN  egl_textureSetFilterRes(texture, f3, ffxCASHandle, w, h)
  ELSE
    egl_textureSetFilterRes(texture, texFilters, ffxCASHandle, 0, 0)

\* ResizeFilters taking CAS for a step of the upscaler: its else branch
\* switches CAS off as well
ResizeFiltersCASToo(w, h) ==
  IF ResizeUpscale(w, h)
  THEN
    LET f0 == IF ffxFSR1Enable
              THEN egl_textureEnableFilter(texture, texFilters,
                                           ffxFSR1Handle[1], TRUE)
              ELSE texFilters
        f1 == IF ffxFSR1Enable
              THEN egl_textureEnableFilter(texture, f0, ffxFSR1Handle[2], TRUE)
              ELSE f0
        f2 == egl_textureSetFilterRes(texture, f1, ffxFSR1Handle[1], w, h)
        f3 == egl_textureSetFilterRes(texture, f2, ffxFSR1Handle[2], w, h)
    IN  egl_textureSetFilterRes(texture, f3, ffxCASHandle, w, h)
  ELSE
    LET f0 == egl_textureEnableFilter(texture, texFilters,
                                      ffxFSR1Handle[1], FALSE)
        f1 == egl_textureEnableFilter(texture, f0, ffxFSR1Handle[2], FALSE)
        f2 == egl_textureEnableFilter(texture, f1, ffxCASHandle, FALSE)
    IN  egl_textureSetFilterRes(texture, f2, ffxCASHandle, 0, 0)

\* the filter steps after a resize of the window to w x h
ResizeFilters(w, h) ==
  IF ResizeUpscale(w, h)
  THEN
    LET f0 == IF ffxFSR1Enable
              THEN egl_textureEnableFilter(texture, texFilters,
                                           ffxFSR1Handle[1], TRUE)
              ELSE texFilters
        f1 == IF ffxFSR1Enable
              THEN egl_textureEnableFilter(texture, f0, ffxFSR1Handle[2], TRUE)
              ELSE f0
        f2 == egl_textureSetFilterRes(texture, f1, ffxFSR1Handle[1], w, h)
        f3 == egl_textureSetFilterRes(texture, f2, ffxFSR1Handle[2], w, h)
    IN  egl_textureSetFilterRes(texture, f3, ffxCASHandle, w, h)
  ELSE
    LET f0 == egl_textureEnableFilter(texture, texFilters,
                                      ffxFSR1Handle[1], FALSE)
        f1 == egl_textureEnableFilter(texture, f0, ffxFSR1Handle[2], FALSE)
    IN  egl_textureSetFilterRes(texture, f1, ffxCASHandle, 0, 0)

\* every filter handle of the surface names a step of its texture
HandlesLive ==
  /\ HandleLive(texture, ffxFSR1Handle[1])
  /\ HandleLive(texture, ffxFSR1Handle[2])
  /\ HandleLive(texture, ffxCASHandle)

\* egl_desktopResize storing the derived state in the user's FSR flag
egl_desktopResizeIntoFlag(w, h) ==
  /\ pc = "running"
  /\ \/ /\ upscale' = ResizeUpscale(w, h)
        /\ ffxFSR1Enable' = (ffxFSR1Enable /\ ResizeUpscale(w, h))
        /\ texFilters' = ResizeFilters(w, h)
        /\ call' = [ op |-> "egl_desktopResize", width |-> w, height |-> h ]
        /\ UNCHANGED << pc, texture, texType, texCount, ffxFSR1Handle,
                        ffxCASHandle, width, height, scaleAlgo, nvMax,
                        nvGain, useDMA, format, ffxFSR1Uniform,
                        ffxCASEnable, ffxCASUniform, dmaFailures, nvStart,
                        nvToggles >>
     \/ /\ ~HandlesLive
        /\ Crash

\* with freed filter steps behind the handles the writes of the call are
\* undefined: they go unnoticed, or the call does not return
egl_desktopResize(w, h) ==
  /\ pc = "running"
  /\ \/ /\ upscale' = ResizeUpscale(w, h)
        /\ texFilters' = ResizeFilters(w, h)
        /\ call' = [ op |-> "egl_desktopResize", width |-> w, height |-> h ]
        /\ UNCHANGED << pc, texture, texType, texCount, ffxFSR1Handle,
                        ffxCASHandle, width, height, scaleAlgo, nvMax,
                        nvGain, useDMA, format, ffxFSR1Enable,
                        ffxFSR1Uniform, ffxCASEnable, ffxCASUniform,
                        dmaFailures, nvStart, nvToggles >>
     \/ /\ ~HandlesLive
        /\ Crash

---------------------------------------------------------------------------
(* egl_desktopRender                                                       *)

\* RenderScaleType asking for both axes to exceed the desktop
RenderScaleTypeBothAxes(scaleType, finalSize) ==
  IF finalSize.x > width /\ finalSize.y > height
  THEN EGL_DESKTOP_DOWNSCALE
  ELSE scaleType

\* the scale type after the final size of the texture has been looked at
RenderScaleType(scaleType, finalSize) ==
  IF finalSize.x > width \/ finalSize.y > height
  THEN EGL_DESKTOP_DOWNSCALE
  ELSE scaleType

\* RenderScaleAlgo with the two cases of the inner switch exchanged
RenderScaleAlgoSwapped(scaleType) ==
  IF scaleAlgo = EGL_SCALE_AUTO
  THEN CASE scaleType = EGL_DESKTOP_NOSCALE   -> EGL_SCALE_LINEAR
         [] scaleType = EGL_DESKTOP_UPSCALE   -> EGL_SCALE_LINEAR
         [] scaleType = EGL_DESKTOP_DOWNSCALE -> EGL_SCALE_NEAREST
         [] OTHER                             -> EGL_SCALE_NEAREST
  ELSE scaleAlgo

\* the value of the local scaleAlgo after the switch on desktop->scaleAlgo
RenderScaleAlgo(scaleType) ==
  IF scaleAlgo = EGL_SCALE_AUTO
  THEN CASE scaleType = EGL_DESKTOP_NOSCALE   -> EGL_SCALE_NEAREST
         [] scaleType = EGL_DESKTOP_UPSCALE   -> EGL_SCALE_NEAREST
         [] scaleType = EGL_DESKTOP_DOWNSCALE -> EGL_SCALE_LINEAR
         [] OTHER                             -> EGL_SCALE_NEAREST
  ELSE scaleAlgo

\* RenderLogs without the test of line 489
RenderLogsNotOk(status) == status # EGL_TEX_STATUS_OK

\* DEBUG_ERROR is called for the status egl_textureProcess answered
RenderLogs(status) ==
  status # EGL_TEX_STATUS_OK /\ status # EGL_TEX_STATUS_NOTREADY

\* status and finalSize are the answers of the texture's process and
\* getFinalSize
egl_desktopRender(scaleType, status, finalSize) ==
  /\ pc = "running"
  /\ \/ /\ texture = NULL
        /\ Crash
     \/ /\ texture # NULL
        /\ call' = [ op           |-> "egl_desktopRender",
                     scaleType    |-> scaleType,
                     status       |-> status,
                     finalSize    |-> finalSize,
                     resolved     |-> RenderScaleType(scaleType, finalSize),
                     logged       |-> RenderLogs(status),
                     bound        |-> texture,
                     uScaleAlgo   |-> RenderScaleAlgo(
                                        RenderScaleType(scaleType, finalSize)),
                     uDesktopSize |-> << width, height >>,
                     uTextureSize |-> << finalSize.x, finalSize.y >>,
                     uNVGain      |-> nvGain,
                     drawn        |-> TRUE,
                     ret          |-> TRUE ]
        /\ UNCHANGED << pc, surfaceVars >>

---------------------------------------------------------------------------
(* egl_desktopConfigUI                                                     *)
(*                                                                         *)
(* The arguments are what the widgets of this pass leave in their          *)
(* variables: the entry picked in the combo, the value of the night vision *)
(* slider, the two check boxes and the two sharpness sliders.  A widget    *)
(* the user did not touch leaves the value it was given.                   *)

\* the uniform of FSR for the value of its sharpness slider
ConfigFSR1Sharpness(fsr1Sharpness) == 2 * SharpUnit - fsr1Sharpness * 2

\* the uniform of CAS for the value of its sharpness slider
ConfigCASSharpness(casSharpness) == casSharpness

\* ConfigFSR1Enable without lines 332 to 340: a new sharpness enables nothing
ConfigFSR1EnableAsTicked(fsr1, fsr1Sharpness) == fsr1

\* desktop->ffxFSR1Enable at the end of the pass
ConfigFSR1Enable(fsr1, fsr1Sharpness) ==
  IF fsr1Sharpness # ffxFSR1Uniform /\ ~fsr1 THEN TRUE ELSE fsr1

\* desktop->ffxCASEnable at the end of the pass
ConfigCASEnable(cas, casSharpness) ==
  IF casSharpness # ffxCASUniform /\ ~cas THEN TRUE ELSE cas

\* the pass enables or disables the FSR steps
ConfigTouchesFSR1(fsr1, fsr1Sharpness) ==
  fsr1 # ffxFSR1Enable \/ (fsr1Sharpness # ffxFSR1Uniform /\ ~fsr1)

\* the pass enables or disables the CAS step
ConfigTouchesCAS(cas, casSharpness) ==
  cas # ffxCASEnable \/ (casSharpness # ffxCASUniform /\ ~cas)

\* invalidateTex at the end of the pass
ConfigInvalidateTex(fsr1, fsr1Sharpness, cas, casSharpness) ==
  \/ fsr1 # ffxFSR1Enable
  \/ fsr1Sharpness # ffxFSR1Uniform
  \/ cas # ffxCASEnable
  \/ casSharpness # ffxCASUniform

\* the filter steps at the end of the pass
ConfigFilters(fsr1, fsr1Sharpness, cas, casSharpness) ==
  LET fsr1End == ConfigFSR1Enable(fsr1, fsr1Sharpness)
      casEnd  == ConfigCASEnable(cas, casSharpness)
      f0 == IF ConfigTouchesFSR1(fsr1, fsr1Sharpness)
            THEN egl_textureEnableFilter(texture, texFilters,
                   ffxFSR1Handle[1], fsr1End /\ upscale)
            ELSE texFilters
      f1 == IF ConfigTouchesFSR1(fsr1, fsr1Sharpness)
            THEN egl_textureEnableFilter(texture, f0,
                   ffxFSR1Handle[2], fsr1End /\ upscale)
            ELSE f0
  IN  IF ConfigTouchesCAS(cas, casSharpness)
      THEN egl_textureEnableFilter(texture, f1, ffxCASHandle, casEnd)
      ELSE f1

egl_desktopConfigUI(scale, nvSlider, fsr1, fsr1Sharpness, cas, casSharpness) ==
  LET invalidateTex ==
        ConfigInvalidateTex(fsr1, fsr1Sharpness, cas, casSharpness)
      touchesSteps ==
        \/ ConfigTouchesFSR1(fsr1, fsr1Sharpness)
        \/ ConfigTouchesCAS(cas, casSharpness)
  IN
  /\ pc = "running"
  /\ \/ /\ invalidateTex => texture # NULL
        /\ scaleAlgo' = scale
        /\ nvGain' = nvSlider
        /\ nvStart' = IF nvSlider # nvGain THEN nvSlider ELSE nvStart
        /\ nvToggles' = IF nvSlider # nvGain THEN 0 ELSE nvToggles
        /\ ffxFSR1Enable' = ConfigFSR1Enable(fsr1, fsr1Sharpness)
        /\ ffxFSR1Uniform' = IF fsr1Sharpness # ffxFSR1Uniform
                             THEN ConfigFSR1Sharpness(fsr1Sharpness)
                             ELSE ffxFSR1Uniform
        /\ ffxCASEnable' = ConfigCASEnable(cas, casSharpness)
        /\ ffxCASUniform' = IF casSharpness # ffxCASUniform
                            THEN ConfigCASSharpness(casSharpness)
                            ELSE ffxCASUniform
        /\ texFilters' = ConfigFilters(fsr1, fsr1Sharpness, cas, casSharpness)
        /\ call' = [ op               |-> "egl_desktopConfigUI",
                     fsr1             |-> fsr1,
                     fsr1Sharpness    |-> fsr1Sharpness,
                     cas              |-> cas,
                     casSharpness     |-> casSharpness,
                     fsr1Set          |-> fsr1Sharpness # ffxFSR1Uniform,
                     casSet           |-> casSharpness # ffxCASUniform,
                     textureInvalidate |-> invalidateTex,
                     invalidateWindow |-> invalidateTex ]
        /\ UNCHANGED << pc, texture, texType, texCount, ffxFSR1Handle,
                        ffxCASHandle, width, height, upscale, nvMax, useDMA,
                        format, dmaFailures >>
     \/ /\ \/ touchesSteps /\ ~HandlesLive
           \/ invalidateTex /\ texture = NULL
        /\ Crash

---------------------------------------------------------------------------
(* The inputs of the calls.                                                *)

Bool == { TRUE, FALSE }

\* file descriptors of a frame: none, or one
DmaFds == { -1, 3 }

FrameDims == 1 .. MaxFrameDim
WindowDims == 1 .. MaxWindowDim

\* the frame of type t that is w x h pixels
Format(t, w, h) == [ type |-> t, width |-> w, height |-> h ]

\* the frame types of Spec: one egl_desktopSetup has a case for, one not
TransferFrameTypes == { "FRAME_TYPE_BGRA", "FRAME_TYPE_INVALID" }

\* the frames of Spec
TransferFormats ==
  { Format(t, w, h) : t \in TransferFrameTypes, w \in FrameDims,
                      h \in FrameDims }

\* the frames of SpecFilter
FilterFormats ==
  { Format("FRAME_TYPE_BGRA", w, h) : w \in FrameDims, h \in FrameDims }

\* the frames of SpecScale
ScaleFormats ==
  { Format("FRAME_TYPE_RGBA", w, h) : w \in FrameDims, h \in FrameDims }

\* the frames of SpecSetup: of every type egl_desktopSetup has a case for
\* and of one it has none for, in more than one size
SetupFrameTypes == SupportedFrameTypes \cup { "FRAME_TYPE_INVALID" }
SetupDims == 1 .. MaxFrameDim + 1
SetupFormats ==
  { Format(t, w, h) : t \in SetupFrameTypes, w \in SetupDims,
                      h \in SetupDims }

\* the final sizes a texture can report
FinalDims == 0 .. MaxWindowDim
FinalSizes == { [ x |-> x, y |-> y ] : x \in FinalDims, y \in FinalDims }

\* the values a sharpness slider can be put to: 0.0f .. 1.0f
SliderValues == 0 .. SharpUnit

\* the values the night vision slider can be put to
NvSliderValues == 0 .. nvMax

---------------------------------------------------------------------------
(* Spec: the transfer path.  Frames are BGRA or of a type egl_desktopSetup *)
(* has no case for, the panel's check boxes are used but its sliders and   *)
(* its combo are left alone.                                               *)

Init ==
  egl_desktopInit(Bool, { 1 }, { 0 }, { << EGL_SCALE_AUTO, EGL_SCALE_AUTO >> }, Bool,
                  { SharpUnit }, Bool, { 0 })

Setup ==
  \E fmt \in TransferFormats, texOk \in Bool : egl_desktopSetup(fmt, texOk)

Update ==
  \E dmaFd \in DmaFds, dmaOk \in Bool, initOk \in Bool, setupOk \in Bool,
     frameOk \in Bool :
    egl_desktopUpdate(dmaFd, dmaOk, initOk, setupOk, frameOk)

Resize ==
  \E w \in WindowDims, h \in WindowDims : egl_desktopResize(w, h)

Render ==
  \E status \in TexStatuses :
    egl_desktopRender(EGL_DESKTOP_NOSCALE, status,
                      [ x |-> width, y |-> height ])

ConfigUI ==
  \E fsr1 \in Bool, cas \in Bool :
    egl_desktopConfigUI(scaleAlgo, nvGain, fsr1, ffxFSR1Uniform, cas,
                        ffxCASUniform)

Next ==
  \/ Setup
  \/ Update
  \/ Resize
  \/ Render
  \/ ConfigUI

Spec == Init /\ [][Next]_vars

---------------------------------------------------------------------------
(* SpecFilter: the filter chain.  The widgets of one filter are used in a  *)
(* pass of the panel (the toolkit has one active widget at a time), the    *)
(* window is resized, frames are BGRA and their DMA import fails.          *)

\* the surface starts on the DMA path, and comes to the framebuffer path by
\* the downgrade
InitFilter ==
  egl_desktopInit({ TRUE }, { 1 }, { 0 }, { << EGL_SCALE_AUTO, EGL_SCALE_AUTO >> }, Bool,
                  { SharpUnit }, Bool, { 0 })

FilterSetup ==
  \E fmt \in FilterFormats : egl_desktopSetup(fmt, TRUE)

FilterUpdate ==
  \E initOk \in Bool : egl_desktopUpdate(3, FALSE, initOk, TRUE, TRUE)

\* a pass of the panel in which the user works the widgets of FSR
FilterConfigFSR1 ==
  \E fsr1 \in Bool, fsr1Sharpness \in { ffxFSR1Uniform } \cup SliderValues :
    egl_desktopConfigUI(scaleAlgo, nvGain, fsr1, fsr1Sharpness,
                        ffxCASEnable, ffxCASUniform)

\* a pass of the panel in which the user works the widgets of CAS
FilterConfigCAS ==
  \E cas \in Bool, casSharpness \in { ffxCASUniform } \cup SliderValues :
    egl_desktopConfigUI(scaleAlgo, nvGain, ffxFSR1Enable, ffxFSR1Uniform,
                        cas, casSharpness)

NextFilter ==
  \/ FilterSetup
  \/ FilterUpdate
  \/ Resize
  \/ FilterConfigFSR1
  \/ FilterConfigCAS

SpecFilter == InitFilter /\ [][NextFilter]_vars

---------------------------------------------------------------------------
(* SpecNV: night vision.  The option store holds any gain and any maximum, *)
(* in range or not; the key and the slider of the panel change the gain.   *)

NvMaxOpts == -1 .. MaxNvMax
NvGainOpts == -1 .. MaxNvMax + 1

InitNV ==
  egl_desktopInit({ FALSE }, NvMaxOpts, NvGainOpts, { << EGL_SCALE_AUTO, EGL_SCALE_AUTO >> },
                  { FALSE }, { SharpUnit }, { FALSE }, { 0 })

NvConfigUI ==
  \E nvSlider \in { nvGain } \cup NvSliderValues :
    egl_desktopConfigUI(scaleAlgo, nvSlider, ffxFSR1Enable, ffxFSR1Uniform,
                        ffxCASEnable, ffxCASUniform)

NvRender ==
  egl_desktopRender(EGL_DESKTOP_NOSCALE, EGL_TEX_STATUS_OK,
                    [ x |-> width, y |-> height ])

NextNV ==
  \/ toggleNV
  \/ NvConfigUI
  \/ NvRender

SpecNV == InitNV /\ [][NextNV]_vars

---------------------------------------------------------------------------
(* SpecScale: the scale algorithm.  The option store holds any value the   *)
(* validation hook lets through, the combo of the panel picks any entry,   *)
(* and the render call is given any scale type and meets any final size.   *)

\* the values a configuration file can hold for egl:scale
ScaleOpts == -1 .. EGL_SCALE_MAX
\* egl:scale holds an accepted value when another is loaded over it
ScaleLoads == ( 0 .. EGL_SCALE_MAX - 1 ) \X ScaleOpts

InitScale ==
  egl_desktopInit({ FALSE }, { 1 }, { 0 }, ScaleLoads, { FALSE },
                  { SharpUnit }, { FALSE }, { 0 })

ScaleSetup ==
  \E fmt \in ScaleFormats : egl_desktopSetup(fmt, TRUE)

ScaleConfigUI ==
  \E scale \in 0 .. EGL_SCALE_MAX - 1 :
    egl_desktopConfigUI(scale, nvGain, ffxFSR1Enable, ffxFSR1Uniform,
                        ffxCASEnable, ffxCASUniform)

ScaleRender ==
  \E scaleType \in ScaleTypes, status \in TexStatuses,
     finalSize \in FinalSizes :
    egl_desktopRender(scaleType, status, finalSize)

NextScale ==
  \/ ScaleSetup
  \/ ScaleConfigUI
  \/ ScaleRender

SpecScale == InitScale /\ [][NextScale]_vars

---------------------------------------------------------------------------
(* SpecSetup: the format of the frames.  Frames of every type and of more  *)
(* than one size are set up, on either transfer path, and the surface is   *)
(* downgraded.                                                             *)

InitSetup ==
  egl_desktopInit(Bool, { 1 }, { 0 }, { << EGL_SCALE_AUTO, EGL_SCALE_AUTO >> },
                  { FALSE }, { SharpUnit }, { FALSE }, { 0 })

SetupAny ==
  \E fmt \in SetupFormats, texOk \in Bool : egl_desktopSetup(fmt, texOk)

SetupUpdate ==
  \E dmaOk \in Bool, initOk \in Bool, setupOk \in Bool :
    egl_desktopUpdate(3, dmaOk, initOk, setupOk, TRUE)

NextSetup ==
  \/ SetupAny
  \/ SetupUpdate

SpecSetup == InitSetup /\ [][NextSetup]_vars

---------------------------------------------------------------------------
(* Properties.                                                             *)

\* the two FSR steps of the texture, through the handles of the surface
FSR1Active(i) == texFilters[ffxFSR1Handle[i].idx].enabled

\* the call `op' has just returned
Returned(op) == pc = "running" /\ call.op = op

\* C1: once a DMA import has failed on a surface, useDMA is false in every
\* later state, no later egl_desktopUpdate tries a DMA import whatever
\* dmaFd it is given, and so the import fails (and the texture is replaced)
\* at most once in the life of the surface.
C1_DowngradeIsPermanent ==
  /\ [](dmaFailures > 0 => ~useDMA)
  /\ [](dmaFailures <= 1)
  /\ [][ ( /\ dmaFailures > 0
           /\ pc' = "running"
           /\ call'.op = "egl_desktopUpdate" )
         => call'.dma = "none" ]_vars

\* C1: an update that was given a file descriptor after the downgrade and
\* went straight to the framebuffer path
C1_Witness ==
  /\ Returned("egl_desktopUpdate")
  /\ dmaFailures = 1
  /\ ~useDMA
  /\ call.dmaFd >= 0
  /\ call.dma = "none"
  /\ call.frame = "ok"

\* C2: whenever a call can be made on the surface, also after
\* egl_desktopUpdate has returned false because the replacement texture
\* could not be built or set up, the surface holds a live texture and its
\* three filter steps are steps of that texture.
C2_TextureAlwaysLive ==
  pc = "running" =>
    /\ texture # NULL
    /\ HandlesLive
    /\ Len(texFilters) = 3

\* C3: in every state of the surface, the two FSR steps are inactive
\* whenever upscale is false, whatever ffxFSR1Enable is.
C3_FSRInactiveUnlessUpscaling ==
  (pc = "running" /\ HandlesLive /\ ~upscale) =>
    (~FSR1Active(1) /\ ~FSR1Active(2))

\* C4: right after egl_desktopResize(width, height), upscale is (width >
\* desktop->width && height > desktop->height) and each FSR step of the
\* texture is active exactly if ffxFSR1Enable && upscale.
C4_ResizeDerivesActive ==
  Returned("egl_desktopResize") =>
    /\ upscale = (call.width > width /\ call.height > height)
    /\ HandlesLive =>
         /\ FSR1Active(1) = (ffxFSR1Enable /\ upscale)
         /\ FSR1Active(2) = (ffxFSR1Enable /\ upscale)

\* C4: a resize has made the surface upscale and the FSR steps, enabled by
\* the user, are active
C4_Witness ==
  /\ Returned("egl_desktopResize")
  /\ width > 0
  /\ call.width > width /\ call.height > height
  /\ upscale
  /\ ffxFSR1Enable
  /\ HandlesLive
  /\ FSR1Active(1) /\ FSR1Active(2)

\* C5: egl_desktopResize leaves the user's settings as they are: the enable
\* flags of FSR and CAS, the two sharpness uniforms, the scale algorithm,
\* the night vision gain and the transfer path.
C5_ResizeKeepsIntent ==
  [][ (pc' = "running" /\ call'.op = "egl_desktopResize")
      => UNCHANGED << ffxFSR1Enable, ffxCASEnable, ffxFSR1Uniform,
                      ffxCASUniform, scaleAlgo, nvGain, useDMA >> ]_vars

\* C5: a resize has ended the upscaling: the FSR steps are off and the
\* user's flag is still set
C5_Witness ==
  /\ Returned("egl_desktopResize")
  /\ width > 0
  /\ ~upscale
  /\ ffxFSR1Enable
  /\ HandlesLive
  /\ ~FSR1Active(1) /\ ~FSR1Active(2)

\* C6: the algorithm egl_desktopRender hands to the shader is Linear when
\* Auto is configured and the resolved scale type is Downscale, Nearest
\* when Auto is configured and the resolved scale type is Upscale or
\* NoScale, and the configured algorithm when that is not Auto.
C6_ScaleSelection ==
  Returned("egl_desktopRender") =>
    /\ ( scaleAlgo = EGL_SCALE_AUTO /\ call.resolved = EGL_DESKTOP_DOWNSCALE )
         => call.uScaleAlgo = EGL_SCALE_LINEAR
    /\ ( scaleAlgo = EGL_SCALE_AUTO
         /\ ( \/ call.resolved = EGL_DESKTOP_UPSCALE
              \/ call.resolved = EGL_DESKTOP_NOSCALE ) )
         => call.uScaleAlgo = EGL_SCALE_NEAREST
    /\ scaleAlgo # EGL_SCALE_AUTO => call.uScaleAlgo = scaleAlgo

\* C6: Auto is configured, the frame is scaled down and is drawn Linear
C6_Witness ==
  /\ Returned("egl_desktopRender")
  /\ scaleAlgo = EGL_SCALE_AUTO
  /\ call.resolved = EGL_DESKTOP_DOWNSCALE
  /\ call.uScaleAlgo = EGL_SCALE_LINEAR

\* C7: when the final size of the texture exceeds the desktop size in
\* width or in height the resolved scale type is Downscale whatever the
\* caller passed (and Auto then draws Linear); when it exceeds in neither,
\* the resolved scale type is the caller's.
C7_FinalSizeForcesDownscale ==
  Returned("egl_desktopRender") =>
    IF call.finalSize.x > width \/ call.finalSize.y > height
    THEN /\ call.resolved = EGL_DESKTOP_DOWNSCALE
         /\ scaleAlgo = EGL_SCALE_AUTO => call.uScaleAlgo = EGL_SCALE_LINEAR
    ELSE call.resolved = call.scaleType

\* C7: the caller passed Upscale, the final size exceeds the desktop in
\* width alone, and the frame is drawn Linear
C7_Witness ==
  /\ Returned("egl_desktopRender")
  /\ width > 0
  /\ call.scaleType = EGL_DESKTOP_UPSCALE
  /\ call.finalSize.x > width
  /\ call.finalSize.y <= height
  /\ call.resolved = EGL_DESKTOP_DOWNSCALE
  /\ scaleAlgo = EGL_SCALE_AUTO
  /\ call.uScaleAlgo = EGL_SCALE_LINEAR

\* C8: n toggleNV events after the gain was 0 the gain is n mod (nvMax +
\* 1), and a toggleNV event takes a gain of 0 .. nvMax to (gain + 1) mod
\* (nvMax + 1).  The modulus is defined for nvMax >= 0.
C8_NightVisionCycle ==
  /\ []( (nvStart = 0 /\ nvMax >= 0)
         => nvGain = nvToggles % (nvMax + 1) )
  /\ [][ ( /\ call'.op = "toggleNV"
           /\ nvToggles' = nvToggles + 1
           /\ 0 <= nvGain /\ nvGain <= nvMax )
         => nvGain' = (nvGain + 1) % (nvMax + 1) ]_vars

\* C8: the key has taken the gain from 0 past nvMax and around
C8_Witness ==
  /\ Returned("toggleNV")
  /\ nvStart = 0
  /\ nvMax >= 1
  /\ nvToggles = nvMax + 2
  /\ nvGain = 1

\* C9: in every state after egl_desktopInit, 0 <= nvGain <= nvMax.
C9_GainInRange == 0 <= nvGain /\ nvGain <= nvMax

\* the values the sharpness sliders of the panel are given to show
ConfigFSR1SharpnessShown == ffxFSR1Uniform
ConfigCASSharpnessShown == ffxCASUniform

\* C10: a pass of the panel that finds the sharpness slider of FSR or of
\* CAS at another value than the uniform holds leaves the enable flag of
\* that filter set (also when it was clear), invalidates the texture and
\* asks for a redraw of the window; when the pass set the flag of FSR
\* (its check box was clear) the FSR steps are then active exactly if the
\* surface upscales.
C10_SharpnessEnables ==
  Returned("egl_desktopConfigUI") =>
    /\ call.fsr1Set =>
         /\ ffxFSR1Enable
         /\ call.textureInvalidate
         /\ call.invalidateWindow
         /\ (~call.fsr1 /\ HandlesLive) => ( /\ FSR1Active(1) = upscale
                                            /\ FSR1Active(2) = upscale )
    /\ call.casSet =>
         /\ ffxCASEnable
         /\ call.textureInvalidate
         /\ call.invalidateWindow

\* C10: the sharpness of FSR was changed with its check box clear while
\* the surface was upscaling: FSR is enabled and its steps are active
C10_Witness ==
  /\ Returned("egl_desktopConfigUI")
  /\ call.fsr1Set
  /\ ~call.fsr1
  /\ ffxFSR1Enable
  /\ upscale
  /\ width > 0
  /\ HandlesLive
  /\ FSR1Active(1) /\ FSR1Active(2)
  /\ call.textureInvalidate
  /\ call.invalidateWindow

\* C11: an egl_desktopUpdate whose DMA import fails and whose downgrade
\* succeeds uploads the frame from the framebuffer in the same call and
\* returns the result of that upload; a failed framebuffer upload (on the
\* framebuffer path, on the DMA path without a file descriptor, or after
\* the downgrade) makes the call return false, after one attempt; a DMA
\* import that succeeds returns true without a framebuffer upload.
C11_UpdateResult ==
  Returned("egl_desktopUpdate") =>
    /\ ( call.dma = "failed" /\ call.init = "ok" /\ call.setup = "ok" )
         => ( /\ call.frame \in { "ok", "failed" }
              /\ call.ret = (call.frame = "ok") )
    /\ call.dma = "none"
         => ( /\ call.frame \in { "ok", "failed" }
              /\ call.ret = (call.frame = "ok") )
    /\ call.frame = "failed" => ~call.ret
    /\ call.dma = "ok" => ( call.ret /\ call.frame = "none" )

\* C11: the import failed, the surface was downgraded and set up again, and
\* the frame was uploaded from the framebuffer in the same call
C11_Witness ==
  /\ Returned("egl_desktopUpdate")
  /\ call.dmaFd >= 0
  /\ call.dma = "failed"
  /\ call.init = "ok"
  /\ call.setup = "ok"
  /\ call.frame = "ok"
  /\ call.ret

\* C12: the egl_desktopUpdate that downgrades the surface builds a new
\* texture and adds the three filter steps to it in the order they had on
\* the old one (FSR pass 0, FSR pass 1, CAS), each with the enable flag the
\* user had set for it; the enable flags and the sharpness uniforms are
\* those of before the failed import.
C12_DowngradeKeepsFilters ==
  [][ ( /\ pc' = "running"
        /\ call'.op = "egl_desktopUpdate"
        /\ call'.dma = "failed"
        /\ call'.init = "ok"
        /\ dmaFailures' = dmaFailures + 1 )
      => ( /\ texture' # NULL
           /\ texture' # texture
           /\ HandlesLive'
           /\ Len(texFilters') = Len(texFilters)
           /\ \A i \in 1 .. Len(texFilters) :
                texFilters'[i].shader = texFilters[i].shader
           /\ << ffxFSR1Handle'[1].idx, ffxFSR1Handle'[2].idx,
                 ffxCASHandle'.idx >>
                = << ffxFSR1Handle[1].idx, ffxFSR1Handle[2].idx,
                     ffxCASHandle.idx >>
           /\ UNCHANGED << ffxFSR1Enable, ffxCASEnable, ffxFSR1Uniform,
                           ffxCASUniform >>
           /\ texFilters'[ffxFSR1Handle'[1].idx].enabled = ffxFSR1Enable
           /\ texFilters'[ffxFSR1Handle'[2].idx].enabled = ffxFSR1Enable
           /\ texFilters'[ffxCASHandle'.idx].enabled = ffxCASEnable ) ]_vars

\* C12: a surface whose filters the user had enabled and sharpened has been
\* downgraded: the steps are on the new texture, enabled, in order
C12_Witness ==
  /\ Returned("egl_desktopUpdate")
  /\ call.dma = "failed"
  /\ call.init = "ok"
  /\ texture = 2
  /\ HandlesLive
  /\ << texFilters[1].shader, texFilters[2].shader, texFilters[3].shader >>
       = << FSR1_EASU, FSR1_RCAS, CAS >>
  /\ ffxFSR1Enable /\ FSR1Active(1) /\ FSR1Active(2)
  /\ ffxCASEnable /\ texFilters[ffxCASHandle.idx].enabled
  /\ ffxFSR1Uniform # SharpUnit
  /\ ffxCASUniform # 0

\* C13: egl_desktopScaleValidate accepts v exactly if 0 <= v <
\* EGL_SCALE_MAX; a value out of that range is rejected with an error
\* message, is not clamped into the range and does not become scaleAlgo:
\* the value accepted before stays.  scaleAlgo is in the range in every
\* state.
C13_ScaleValidation ==
  /\ 0 <= scaleAlgo /\ scaleAlgo < EGL_SCALE_MAX
  /\ Returned("egl_desktopInit") =>
       IF 0 <= call.scaleTried /\ call.scaleTried < EGL_SCALE_MAX
       THEN /\ scaleAlgo = call.scaleTried
            /\ call.scaleError = << >>
       ELSE /\ scaleAlgo = call.scalePrior
            /\ call.scaleError # << >>

\* C13: EGL_SCALE_MAX was loaded over Linear and Linear has stayed
C13_Witness ==
  /\ Returned("egl_desktopInit")
  /\ call.scaleTried = EGL_SCALE_MAX
  /\ call.scalePrior = EGL_SCALE_LINEAR
  /\ scaleAlgo = EGL_SCALE_LINEAR
  /\ call.scaleError # << >>

\* C14: whatever egl_textureProcess answers (Ok, NotReady or Error),
\* egl_desktopRender binds the texture, hands the uniforms to the shader,
\* draws and returns true; it logs exactly the answer Error; and it leaves
\* the state of the surface as it was, so that the next render call
\* processes the texture again.
C14_ProcessFailureNotFatal ==
  /\ []( Returned("egl_desktopRender") =>
           /\ call.status \in TexStatuses
           /\ call.bound = texture
           /\ call.uDesktopSize = << width, height >>
           /\ call.uTextureSize = << call.finalSize.x, call.finalSize.y >>
           /\ call.uNVGain = nvGain
           /\ call.uScaleAlgo \in { EGL_SCALE_NEAREST, EGL_SCALE_LINEAR }
           /\ call.drawn
           /\ call.ret
           /\ call.logged = (call.status = EGL_TEX_STATUS_ERROR) )
  /\ [][ ( pc' = "running" /\ call'.op = "egl_desktopRender" )
         => UNCHANGED surfaceVars ]_vars

\* C14: the texture could not be processed: the error is logged and the
\* frame is drawn all the same
C14_Witness ==
  /\ Returned("egl_desktopRender")
  /\ call.status = EGL_TEX_STATUS_ERROR
  /\ call.logged
  /\ call.bound = texture
  /\ call.drawn
  /\ call.ret
  /\ width > 0

\* C15: egl_desktopSetup returns true only for a frame of type BGRA,
\* RGBA, RGBA10 or RGBA16F, and has then set width and height to those of
\* the frame; for a frame of any other type it returns false and has not
\* called the setup of the texture.
C15_SetupSupportedOnly ==
  Returned("egl_desktopSetup") =>
    /\ call.ret =>
         /\ call.fmt.type \in { "FRAME_TYPE_BGRA", "FRAME_TYPE_RGBA",
                                "FRAME_TYPE_RGBA10", "FRAME_TYPE_RGBA16F" }
         /\ width = call.fmt.width
         /\ height = call.fmt.height
         /\ call.texSetup
              = << PixFmt(call.fmt.type), call.fmt.width, call.fmt.height >>
    /\ call.fmt.type \notin { "FRAME_TYPE_BGRA", "FRAME_TYPE_RGBA",
                              "FRAME_TYPE_RGBA10", "FRAME_TYPE_RGBA16F" }
         => ( ~call.ret /\ call.texSetup = << >> )

\* C15: a frame of a supported type and of another size than the last has
\* been set up
C15_Witness ==
  /\ Returned("egl_desktopSetup")
  /\ call.ret
  /\ call.fmt.type = "FRAME_TYPE_RGBA16F"
  /\ call.fmt.width = 2 /\ call.fmt.height = 1
  /\ width = 2 /\ height = 1
  /\ call.texSetup = << "EGL_PF_RGBA16F", 2, 1 >>

\* C16: in every state after egl_desktopInit the uniform of FSR is 2.0 -
\* 2.0 * r for the raw sharpness r last given to FSR, by the option store
\* at egl_desktopInit or by the slider of the panel, and the uniform of CAS
\* is the raw sharpness last given to CAS.
C16_SharpnessDerivation ==
  /\ Returned("egl_desktopInit") =>
       /\ ffxFSR1Uniform = 2 * SharpUnit - 2 * call.fsr1Sharpness
       /\ ffxCASUniform = call.casSharpness
  /\ ( Returned("egl_desktopConfigUI") /\ call.fsr1Set ) =>
       ffxFSR1Uniform = 2 * SharpUnit - 2 * call.fsr1Sharpness
  /\ ( Returned("egl_desktopConfigUI") /\ call.casSet ) =>
       ffxCASUniform = call.casSharpness

\* C17: after a pass of the panel has applied the raw sharpness r to FSR
\* or to CAS, the panel is given r to show for that filter on its next
\* pass, and a pass in which the user touches nothing finds no sharpness
\* changed: it enables no filter, writes no uniform and invalidates
\* nothing.
C17_SharpnessRoundTrip ==
  /\ ( Returned("egl_desktopConfigUI") /\ call.fsr1Set ) =>
       ConfigFSR1SharpnessShown = call.fsr1Sharpness
  /\ ( Returned("egl_desktopConfigUI") /\ call.casSet ) =>
       ConfigCASSharpnessShown = call.casSharpness
  /\ Returned("egl_desktopConfigUI") =>
       /\ ~ConfigInvalidateTex(ffxFSR1Enable, ConfigFSR1SharpnessShown,
                               ffxCASEnable, ConfigCASSharpnessShown)
       /\ ~ConfigTouchesFSR1(ffxFSR1Enable, ConfigFSR1SharpnessShown)
       /\ ~ConfigTouchesCAS(ffxCASEnable, ConfigCASSharpnessShown)

\* C18: an egl_desktopSetup that returns false, for a frame of a type it
\* has no case for or because the setup of the texture failed, leaves
\* desktop->format, width and height as they were, so that the downgrade
\* sets the surface up again with the last format that was set up with
\* success.
C18_FailedSetupKeepsFormat ==
  [][ ( pc' = "running" /\ call'.op = "egl_desktopSetup" /\ ~call'.ret )
      => UNCHANGED << format, width, height >> ]_vars

\* the resolution of the filter step behind a handle
FilterRes(h) == << texFilters[h.idx].w, texFilters[h.idx].h >>

\* C19: after a resize to (w, h) that makes the surface upscale the two
\* FSR steps and the CAS step have the resolution (w, h); after a resize
\* that does not, the CAS step has the resolution (0, 0) and the FSR steps
\* the one they had; and no other call, the downgrade of the transfer
\* path included, changes the resolution of a step of the surface's
\* texture.
C19_ResolutionFollowsResize ==
  /\ []( ( Returned("egl_desktopResize") /\ HandlesLive ) =>
           IF upscale
           THEN /\ FilterRes(ffxFSR1Handle[1]) = << call.width, call.height >>
                /\ FilterRes(ffxFSR1Handle[2]) = << call.width, call.height >>
                /\ FilterRes(ffxCASHandle) = << call.width, call.height >>
           ELSE FilterRes(ffxCASHandle) = << 0, 0 >> )
  /\ [][ ( /\ pc' = "running"
           /\ call'.op = "egl_desktopResize"
           /\ ~upscale'
           /\ HandlesLive /\ HandlesLive' )
         => ( /\ FilterRes(ffxFSR1Handle[1])' = FilterRes(ffxFSR1Handle[1])
              /\ FilterRes(ffxFSR1Handle[2])' = FilterRes(ffxFSR1Handle[2]) )
       ]_vars
  /\ [][ ( /\ pc' = "running"
           /\ call'.op # "egl_desktopResize"
           /\ HandlesLive /\ HandlesLive' )
         => ( /\ FilterRes(ffxFSR1Handle[1])' = FilterRes(ffxFSR1Handle[1])
              /\ FilterRes(ffxFSR1Handle[2])' = FilterRes(ffxFSR1Handle[2])
              /\ FilterRes(ffxCASHandle)' = FilterRes(ffxCASHandle) ) ]_vars

\* C20: in every state after egl_desktopInit the CAS step of the surface's
\* texture is enabled exactly if ffxCASEnable is set, whatever check boxes
\* were ticked, sliders moved, resizes made and downgrades gone through.
C20_CASFollowsUser ==
  ( pc = "running" /\ HandlesLive ) =>
    texFilters[ffxCASHandle.idx].enabled = ffxCASEnable

\* C20: on a downgraded surface that does not upscale, CAS, enabled by a
\* move of its slider, is active
C20_Witness ==
  /\ Returned("egl_desktopResize")
  /\ width > 0
  /\ ~upscale
  /\ dmaFailures = 1
  /\ HandlesLive
  /\ ffxCASEnable
  /\ ffxCASUniform # 0
  /\ texFilters[ffxCASHandle.idx].enabled

=============================================================================
